---- MODULE Spec2Model ----
(***************************************************************************)
(* Model of RAGAgentExecutor (app/infrastructure/web/rag_agent_executor.py):*)
(* the bridge between the A2A task protocol and the ADK agent runtime.      *)
(*                                                                          *)
(* Executions are asyncio coroutines on one event loop: code between two    *)
(* awaits runs without interleaving, so every action below is the code from *)
(* one suspension point (an awaited Task Updater call, the await of the     *)
(* next runtime event) to the next.  _upsert_session contains no await: its *)
(* get_session / create_session pair runs inside one action.                *)
(*                                                                          *)
(* The Task Updater, the session service and the runner are collaborators   *)
(* of the executor; they are modelled by what the executor hands them and   *)
(* reads back from them.                                                    *)
(***************************************************************************)
EXTENDS Integers, Sequences, FiniteSets, TLC

VARIABLES
    pc,          \* per execution: position in execute / _process_request
    req,         \* per execution: the RequestContext it was called with
    err,         \* per execution: the exception that left execute ("" = none)
    calls,       \* per execution: the Task Updater calls it issued, in order
    read,        \* per execution: the runtime events it has read, in order
    handle,      \* per execution: session object _upsert_session returned (0 = none)
    runs,        \* per execution: the runner.run_async invocations it made
    createSeen,  \* per execution: what create_session answered ("" = not called)
    taskState,   \* per task: state recorded by the Task Updater
    terminals,   \* per task: number of terminal transitions recorded
    late,        \* per task: a Task Updater call was issued after a terminal one
    artifacts,   \* per task: the artifacts added, in order
    sessions,    \* session service: session id -> session object (0 = absent)
    createCalls, \* session service: per session id, number of create_session calls
    objects,     \* session service: number of session objects ever created
    cancels,     \* the cancel call of the last step, if it was one: task, the
                 \* task state it met, the error it raised
    sharedStore, \* the session store is shared with writers outside this process
    converted    \* the part converter applied to a list of parts, outside an
                 \* execution: its input and what each conversion returned

vars == <<pc, req, err, calls, read, handle, runs, createSeen, taskState,
          terminals, late, artifacts, sessions, createCalls, objects, cancels,
          sharedStore, converted>>

(***************************************************************************)
(* Bounds and universes                                                     *)
(***************************************************************************)
\* Most events a runtime stream yields to one execution.
MaxStream == 2
\* Most parts in a list handed to the part converter.
MaxParts == 3

Execs == {"e1", "e2"}
TaskIds == {"t1", "t2"}
ContextIds == {"c1", "c2"}

\* Python's None for optional string fields, and the fixed identities.
None == "None"
user_id == "rag_agent_user"
app_name == "Customer Communication Agent"

\* Python truthiness of an optional string.
Truthy(s) == s # None /\ s # ""

(***************************************************************************)
(* Content parts                                                            *)
(***************************************************************************)
\* a2a.types.Part: root is a TextPart, a FilePart (file a FileWithUri or a
\* FileWithBytes) or another part type (DataPart).  bytes is a str, modelled
\* as its sequence of code points.
TextPart(t) ==
    [kind |-> "text", text |-> t, file |-> "none", uri |-> None,
     bytes |-> <<>>, mimeType |-> None]
FileWithUri(u, m) ==
    [kind |-> "file", text |-> None, file |-> "uri", uri |-> u,
     bytes |-> <<>>, mimeType |-> m]
FileWithBytes(b, m) ==
    [kind |-> "file", text |-> None, file |-> "bytes", uri |-> None,
     bytes |-> b, mimeType |-> m]
DataPart ==
    [kind |-> "data", text |-> None, file |-> "none", uri |-> None,
     bytes |-> <<>>, mimeType |-> None]

\* google.genai types.Part: optional text, file_data, inline_data, and the
\* payloads the executor does not convert (function_call).  data is bytes,
\* modelled as a sequence of 0..255.
NoFileData == [set |-> FALSE, file_uri |-> None, mime_type |-> None]
FileData(u, m) == [set |-> TRUE, file_uri |-> u, mime_type |-> m]
NoBlob == [set |-> FALSE, has_data |-> FALSE, data |-> <<>>, mime_type |-> None]
Blob(d, m) == [set |-> TRUE, has_data |-> TRUE, data |-> d, mime_type |-> m]
BlobNoData(m) == [set |-> TRUE, has_data |-> FALSE, data |-> <<>>, mime_type |-> m]
GenaiPart(t, fd, blob, fc) ==
    [text |-> t, file_data |-> fd, inline_data |-> blob, function_call |-> fc]

\* An encoding that writes each code point as one byte (Latin-1).
encode_utf8_latin1(s) == s

\* str.encode("utf-8") / bytes.decode("utf-8") on code points below 2048.
RECURSIVE encode_utf8(_)
encode_utf8(s) ==
    IF s = <<>> THEN <<>>
    ELSE (IF Head(s) < 128 THEN <<Head(s)>>
          ELSE <<192 + (Head(s) \div 64), 128 + (Head(s) % 64)>>)
         \o encode_utf8(Tail(s))

\* [ok, val]: ok is FALSE where Python raises UnicodeDecodeError.
RECURSIVE decode_utf8(_)
decode_utf8(b) ==
    IF b = <<>> THEN [ok |-> TRUE, val |-> <<>>]
    ELSE IF Head(b) < 128 THEN
        LET r == decode_utf8(Tail(b)) IN
        [ok |-> r.ok, val |-> IF r.ok THEN <<Head(b)>> \o r.val ELSE <<>>]
    ELSE IF Head(b) >= 194 /\ Head(b) < 224 /\ Len(b) >= 2
            /\ b[2] >= 128 /\ b[2] < 192 THEN
        LET r == decode_utf8(Tail(Tail(b))) IN
        [ok |-> r.ok,
         val |-> IF r.ok THEN <<(Head(b) - 192) * 64 + (b[2] - 128)>> \o r.val
                 ELSE <<>>]
    ELSE [ok |-> FALSE, val |-> <<>>]

Ok(v) == [ok |-> TRUE, err |-> "", val |-> v]
Raise(msg, dummy) == [ok |-> FALSE, err |-> msg, val |-> dummy]

\* _convert_a2a_part_to_genai without the default mime type: the mime-type of
\* a FileWithBytes is copied as that of a FileWithUri is.
_convert_a2a_part_to_genai_copiesMime(part) ==
    IF part.kind = "text" THEN
        Ok(GenaiPart(part.text, NoFileData, NoBlob, FALSE))
    ELSE IF part.kind = "file" THEN
        IF part.file = "uri" THEN
            Ok(GenaiPart(None, FileData(part.uri, part.mimeType), NoBlob, FALSE))
        ELSE IF part.file = "bytes" THEN
            Ok(GenaiPart(None, NoFileData,
                         Blob(encode_utf8(part.bytes), part.mimeType), FALSE))
        ELSE Raise("ValueError: Unsupported file type",
                   GenaiPart(None, NoFileData, NoBlob, FALSE))
    ELSE Raise("ValueError: Unsupported part type",
               GenaiPart(None, NoFileData, NoBlob, FALSE))

\* _convert_a2a_part_to_genai
_convert_a2a_part_to_genai(part) ==
    IF part.kind = "text" THEN
        Ok(GenaiPart(part.text, NoFileData, NoBlob, FALSE))
    ELSE IF part.kind = "file" THEN
        IF part.file = "uri" THEN
            Ok(GenaiPart(None, FileData(part.uri, part.mimeType), NoBlob, FALSE))
        ELSE IF part.file = "bytes" THEN
            Ok(GenaiPart(None, NoFileData,
                         Blob(encode_utf8(part.bytes),
                              IF Truthy(part.mimeType) THEN part.mimeType
                              ELSE "application/octet-stream"),
                         FALSE))
        ELSE Raise("ValueError: Unsupported file type",
                   GenaiPart(None, NoFileData, NoBlob, FALSE))
    ELSE Raise("ValueError: Unsupported part type",
               GenaiPart(None, NoFileData, NoBlob, FALSE))

\* _convert_a2a_parts_to_genai: the list comprehension raises at the first
\* part that does.
RECURSIVE _convert_a2a_parts_to_genai(_)
_convert_a2a_parts_to_genai(parts) ==
    IF parts = <<>> THEN Ok(<<>>)
    ELSE LET h == _convert_a2a_part_to_genai(Head(parts)) IN
         IF ~h.ok THEN Raise(h.err, <<>>)
         ELSE LET r == _convert_a2a_parts_to_genai(Tail(parts)) IN
              IF ~r.ok THEN Raise(r.err, <<>>)
              ELSE Ok(<<h.val>> \o r.val)

\* _convert_genai_part_to_a2a without its checks of file_uri and data.
_convert_genai_part_to_a2a_unchecked(part) ==
    IF Truthy(part.text) THEN Ok(TextPart(part.text))
    ELSE IF part.file_data.set THEN
        Ok(FileWithUri(part.file_data.file_uri, part.file_data.mime_type))
    ELSE IF part.inline_data.set THEN
        LET d == decode_utf8(part.inline_data.data) IN
        IF ~d.ok THEN Raise("UnicodeDecodeError", DataPart)
        ELSE Ok(FileWithBytes(d.val, part.inline_data.mime_type))
    ELSE Raise("ValueError: Unsupported part type", DataPart)

\* _convert_genai_part_to_a2a with file_data looked at before text.
_convert_genai_part_to_a2a_fileFirst(part) ==
    IF part.file_data.set THEN
        IF ~Truthy(part.file_data.file_uri)
        THEN Raise("ValueError: File URI is missing", DataPart)
        ELSE Ok(FileWithUri(part.file_data.file_uri, part.file_data.mime_type))
    ELSE IF Truthy(part.text) THEN Ok(TextPart(part.text))
    ELSE IF part.inline_data.set THEN
        IF ~part.inline_data.has_data \/ part.inline_data.data = <<>>
        THEN Raise("ValueError: Inline data is missing", DataPart)
        ELSE LET d == decode_utf8(part.inline_data.data) IN
             IF ~d.ok THEN Raise("UnicodeDecodeError", DataPart)
             ELSE Ok(FileWithBytes(d.val, part.inline_data.mime_type))
    ELSE Raise("ValueError: Unsupported part type", DataPart)

\* _convert_genai_part_to_a2a
_convert_genai_part_to_a2a(part) ==
    IF Truthy(part.text) THEN Ok(TextPart(part.text))
    ELSE IF part.file_data.set THEN
        IF ~Truthy(part.file_data.file_uri)
        THEN Raise("ValueError: File URI is missing", DataPart)
        ELSE Ok(FileWithUri(part.file_data.file_uri, part.file_data.mime_type))
    ELSE IF part.inline_data.set THEN
        IF ~part.inline_data.has_data \/ part.inline_data.data = <<>>
        THEN Raise("ValueError: Inline data is missing", DataPart)
        ELSE LET d == decode_utf8(part.inline_data.data) IN
             IF ~d.ok THEN Raise("UnicodeDecodeError", DataPart)
             ELSE Ok(FileWithBytes(d.val, part.inline_data.mime_type))
    ELSE Raise("ValueError: Unsupported part type", DataPart)

\* A filter that looks at the text only.
HasContent_textOnly(part) == Truthy(part.text)

\* No filter: every part is handed to the single-part conversion.
HasContent_noFilter(part) == TRUE

\* The filter of _convert_genai_parts_to_a2a:
\* part.text or part.file_data or part.inline_data
HasContent(part) ==
    Truthy(part.text) \/ part.file_data.set \/ part.inline_data.set

\* _convert_genai_parts_to_a2a
RECURSIVE _convert_genai_parts_to_a2a(_)
_convert_genai_parts_to_a2a(parts) ==
    IF parts = <<>> THEN Ok(<<>>)
    ELSE IF ~HasContent(Head(parts)) THEN _convert_genai_parts_to_a2a(Tail(parts))
    ELSE LET h == _convert_genai_part_to_a2a(Head(parts)) IN
         IF ~h.ok THEN Raise(h.err, <<>>)
         ELSE LET r == _convert_genai_parts_to_a2a(Tail(parts)) IN
              IF ~r.ok THEN Raise(r.err, <<>>)
              ELSE Ok(<<h.val>> \o r.val)

(***************************************************************************)
(* Inputs: requests and runtime events                                      *)
(***************************************************************************)
\* context.message: None, or a Message with a list of parts.
NoMessage == [present |-> FALSE, parts |-> <<>>]
Message(parts) == [present |-> TRUE, parts |-> parts]
Messages ==
    {NoMessage, Message(<<>>), Message(<<TextPart("status?")>>),
     Message(<<TextPart("status?"), DataPart>>)}

\* The identities a request may carry ("" = missing).  Tasks and contexts are
\* interchangeable, so the ids the first execution names are called t1 and c1.
RequestTaskIds(e) == IF e = "e1" THEN {"", "t1"} ELSE TaskIds \cup {""}
RequestContextIds(e) == IF e = "e1" THEN {"", "c1"} ELSE ContextIds \cup {""}

\* google.adk Event as the driver sees it: is_final_response(),
\* get_function_calls() non-empty, content.parts (<<>> when content is None).
Event(final, fcs, parts) == [final |-> final, function_calls |-> fcs, parts |-> parts]
GText(t) == GenaiPart(t, NoFileData, NoBlob, FALSE)
GFile(u) == GenaiPart(None, FileData(u, "text/plain"), NoBlob, FALSE)
GCall == GenaiPart(None, NoFileData, NoBlob, TRUE)
EventSet ==
    {Event(FALSE, FALSE, <<GText("checking...")>>),
     Event(FALSE, FALSE, <<GFile("")>>),
     Event(FALSE, TRUE, <<GText("calling"), GCall>>),
     Event(TRUE, FALSE, <<GText("in transit")>>),
     Event(TRUE, FALSE, <<GText("in transit"), GFile("")>>)}

\* Further events, drawn when one execution runs alone: a second Working
\* fragment, events without content, a final event that carries a function
\* call (a long-running tool call) next to its text, a fragment with an empty
\* part, a final event whose only part is empty.
MoreEvents ==
    {Event(FALSE, FALSE, <<GText("almost...")>>),
     Event(FALSE, FALSE, <<>>),
     Event(TRUE, FALSE, <<>>),
     Event(TRUE, TRUE, <<GText("started"), GCall>>),
     Event(FALSE, FALSE, <<GText(""), GText("still checking")>>),
     Event(TRUE, FALSE, <<GText("")>>)}

\* One execution runs alone: the other is never called.
Solo == pc["e2"] = "off"

\* The events the runtime may yield, and how many of them.
Events == IF Solo THEN EventSet \cup MoreEvents ELSE EventSet
StreamBound == IF Solo THEN MaxStream + 1 ELSE MaxStream

\* What create_session answers: a new Session, None (store malfunction), or,
\* on a store shared with other writers, that the session already exists.
CreateAnswers == {"session", "none"} \cup (IF sharedStore THEN {"exists"} ELSE {})

(***************************************************************************)
(* Initial state: a fresh executor, no task, no session                     *)
(***************************************************************************)
NoCancel == [task |-> "", state |-> "", error |-> ""]
NoRequest ==
    [task_id |-> "", context_id |-> "", message |-> NoMessage, current_task |-> FALSE]

\* The converter before it is applied to anything.
NoConversion ==
    [step |-> "idle", origin |-> "", a2a |-> <<>>, genai |-> <<>>,
     to_genai |-> Ok(<<>>), to_genai_each |-> <<>>,
     to_a2a |-> Ok(<<>>), to_a2a_each |-> <<>>]

InitState(shared, pc0, conv0) ==
    /\ pc = pc0
    /\ req = [e \in Execs |-> NoRequest]
    /\ err = [e \in Execs |-> ""]
    /\ calls = [e \in Execs |-> <<>>]
    /\ read = [e \in Execs |-> <<>>]
    /\ handle = [e \in Execs |-> 0]
    /\ runs = [e \in Execs |-> <<>>]
    /\ createSeen = [e \in Execs |-> ""]
    /\ taskState = [t \in TaskIds |-> "absent"]
    /\ terminals = [t \in TaskIds |-> 0]
    /\ late = [t \in TaskIds |-> FALSE]
    /\ artifacts = [t \in TaskIds |-> <<>>]
    /\ sessions = [k \in ContextIds |-> 0]
    /\ createCalls = [k \in ContextIds |-> 0]
    /\ objects = 0
    /\ cancels = NoCancel
    /\ sharedStore = shared
    /\ converted = conv0

InitWith(shared) == InitState(shared, [e \in Execs |-> "idle"], NoConversion)

\* InMemorySessionService of create_a2a_app: private to the process.
Init == InitWith(FALSE)
\* A session service whose store other processes write as well.
InitShared == InitWith(TRUE)
\* One execution alone, on the private store.
InitSolo ==
    InitState(FALSE, [e \in Execs |-> IF e = "e1" THEN "idle" ELSE "off"],
              NoConversion)

(***************************************************************************)
(* Task Updater: TaskUpdater(event_queue, task_id, context_id)              *)
(***************************************************************************)
\* State the task is in after a call.
StateAfter(op, st) ==
    CASE op = "submit" -> "submitted"
      [] op = "start_work" -> "working"
      [] op = "update_status" -> "working"
      [] op = "complete" -> "completed"
      [] op = "failed" -> "failed"
      [] op = "cancel" -> "canceled"
      [] OTHER -> st

Terminal(op) == op \in {"complete", "failed", "cancel"}

\* An updater that puts a call in front of the earlier ones.
UpdaterCall_prepends(e, t, op, parts) ==
    /\ calls' = [calls EXCEPT ![e] = <<[op |-> op, parts |-> parts]>> \o @]
    /\ taskState' = [taskState EXCEPT ![t] = StateAfter(op, @)]
    /\ terminals' = [terminals EXCEPT ![t] = IF Terminal(op) THEN @ + 1 ELSE @]
    /\ late' = [late EXCEPT ![t] = @ \/ terminals[t] > 0]
    /\ artifacts' = [artifacts EXCEPT ![t] = IF op = "add_artifact" THEN Append(@, parts) ELSE @]

\* An updater shared by the executions and bound to the first task it saw.
UpdaterCall_wrongTask(e, t, op, parts) ==
    /\ calls' = [calls EXCEPT ![e] = Append(@, [op |-> op, parts |-> parts])]
    /\ taskState' = [taskState EXCEPT !["t1"] = StateAfter(op, @)]
    /\ terminals' = [terminals EXCEPT !["t1"] = IF Terminal(op) THEN @ + 1 ELSE @]
    /\ late' = [late EXCEPT !["t1"] = @ \/ terminals["t1"] > 0]
    /\ artifacts' = [artifacts EXCEPT !["t1"] = IF op = "add_artifact" THEN Append(@, parts) ELSE @]

\* Execution e issues call op(parts) on the updater of task t.
UpdaterCall(e, t, op, parts) ==
    /\ calls' = [calls EXCEPT ![e] = Append(@, [op |-> op, parts |-> parts])]
    /\ taskState' = [taskState EXCEPT ![t] = StateAfter(op, @)]
    /\ terminals' = [terminals EXCEPT ![t] = IF Terminal(op) THEN @ + 1 ELSE @]
    /\ late' = [late EXCEPT ![t] = @ \/ terminals[t] > 0]
    /\ artifacts' = [artifacts EXCEPT ![t] = IF op = "add_artifact" THEN Append(@, parts) ELSE @]

NoUpdaterCall == UNCHANGED <<calls, taskState, terminals, late, artifacts>>

\* An execute that never announces the task as Submitted.
submit_skipped(e, t) == NoUpdaterCall

\* await updater.submit()
submit(e, t) == UpdaterCall(e, t, "submit", <<>>)

\* start_work left out.
start_work_skipped(e, t) == NoUpdaterCall

\* await updater.start_work()
start_work(e, t) == UpdaterCall(e, t, "start_work", <<>>)

\* The exception msg leaves execute.
Raises(e, msg) ==
    /\ pc' = [pc EXCEPT ![e] = "raised"]
    /\ err' = [err EXCEPT ![e] = msg]

(***************************************************************************)
(* Session service access                                                   *)
(***************************************************************************)
\* _upsert_session without the `if session is None` test: create_session is
\* called whatever get_session returned.
_upsert_session_always_create(session_id, answer) ==
    IF answer = "none" THEN
        [session |-> 0, err |-> "RuntimeError: Failed to get or create session",
         store |-> sessions, created |-> "none"]
    ELSE
        [session |-> objects + 1, err |-> "",
         store |-> [sessions EXCEPT ![session_id] = objects + 1],
         created |-> "session"]

\* _upsert_session without the final `if session is None` check: what
\* create_session returned is handed back as it is.
_upsert_session_unchecked(session_id, answer) ==
    LET got == sessions[session_id] IN
    IF got # 0 THEN
        [session |-> got, err |-> "", store |-> sessions, created |-> ""]
    ELSE IF answer = "session" THEN
        [session |-> objects + 1, err |-> "",
         store |-> [sessions EXCEPT ![session_id] = objects + 1],
         created |-> "session"]
    ELSE
        [session |-> 0, err |-> "", store |-> sessions, created |-> "none"]

\* _upsert_session: get_session, then create_session when it returned None,
\* then the check of what create returned.  `answer` is what create_session
\* answers if it is called.  The result carries the store after the call.
_upsert_session(session_id, answer) ==
    LET got == sessions[session_id] IN
    IF got # 0 THEN
        [session |-> got, err |-> "", store |-> sessions, created |-> ""]
    ELSE IF answer = "session" THEN
        [session |-> objects + 1, err |-> "",
         store |-> [sessions EXCEPT ![session_id] = objects + 1],
         created |-> "session"]
    ELSE IF answer = "none" THEN
        [session |-> 0, err |-> "RuntimeError: Failed to get or create session",
         store |-> sessions, created |-> "none"]
    ELSE \* another writer created the session after get_session returned
        [session |-> 0, err |-> "AlreadyExistsError",
         store |-> [sessions EXCEPT ![session_id] = objects + 1],
         created |-> "exists"]

(***************************************************************************)
(* execute                                                                  *)
(***************************************************************************)
\* The request checks without the message check.
Validate_noMessageCheck(task_id, context_id, message) ==
    IF ~Truthy(task_id) \/ ~Truthy(context_id)
    THEN "ValueError: RequestContext must have task_id and context_id"
    ELSE ""

\* The request checks of execute: the ValueError raised, "" when none is.
\* `not context.message` holds of None only: a Message object is truthy
\* whatever its parts.
Validate(task_id, context_id, message) ==
    IF ~Truthy(task_id) \/ ~Truthy(context_id)
    THEN "ValueError: RequestContext must have task_id and context_id"
    ELSE IF ~message.present
    THEN "ValueError: RequestContext must have a message"
    ELSE ""

\* execute, from its call to its first await: validation, then submit() when
\* the request has no current task, else start_work().
Execute(e) ==
    /\ pc[e] = "idle"
    /\ \E task_id \in RequestTaskIds(e), context_id \in RequestContextIds(e),
          message \in Messages, current_task \in BOOLEAN :
        /\ current_task => (task_id \in TaskIds /\ taskState[task_id] # "absent")
        /\ req' = [req EXCEPT ![e] =
                     [task_id |-> task_id, context_id |-> context_id,
                      message |-> message, current_task |-> current_task]]
        /\ IF Validate(task_id, context_id, message) # "" THEN
               /\ Raises(e, Validate(task_id, context_id, message))
               /\ NoUpdaterCall
           ELSE IF ~current_task THEN
               /\ submit(e, task_id)
               /\ pc' = [pc EXCEPT ![e] = "start_work"]
               /\ UNCHANGED err
           ELSE
               /\ start_work(e, task_id)
               /\ pc' = [pc EXCEPT ![e] = "process"]
               /\ UNCHANGED err
    /\ cancels' = NoCancel
    /\ UNCHANGED <<read, handle, runs, createSeen, sessions, createCalls,
                   objects, sharedStore, converted>>

\* await updater.start_work() after the awaited submit().
StartWork(e) ==
    /\ pc[e] = "start_work"
    /\ start_work(e, req[e].task_id)
    /\ pc' = [pc EXCEPT ![e] = "process"]
    /\ cancels' = NoCancel
    /\ UNCHANGED <<req, err, read, handle, runs, createSeen, sessions,
                   createCalls, objects, sharedStore, converted>>

\* From the return of start_work to the first await of the event stream:
\* conversion of the inbound parts, _upsert_session, runner.run_async.
ProcessRequest(e) ==
    /\ pc[e] = "process"
    /\ LET conv == _convert_a2a_parts_to_genai(req[e].message.parts) IN
       IF ~conv.ok THEN
           /\ Raises(e, conv.err)
           /\ UNCHANGED <<handle, runs, createSeen, sessions, createCalls, objects>>
       ELSE \E answer \in CreateAnswers :
           LET up == _upsert_session(req[e].context_id, answer) IN
           /\ sessions' = up.store
           /\ createSeen' = [createSeen EXCEPT ![e] = up.created]
           /\ createCalls' = [createCalls EXCEPT ![req[e].context_id] =
                                IF up.created # "" THEN @ + 1 ELSE @]
           /\ objects' = IF up.created \in {"session", "exists"}
                         THEN objects + 1 ELSE objects
           /\ IF up.err # "" THEN
                  /\ Raises(e, up.err)
                  /\ UNCHANGED <<handle, runs>>
              ELSE
                  /\ handle' = [handle EXCEPT ![e] = up.session]
                  /\ runs' = [runs EXCEPT ![e] =
                                Append(@, [session_id |-> req[e].context_id,
                                           user_id |-> user_id,
                                           new_message |-> conv.val])]
                  /\ pc' = [pc EXCEPT ![e] = "streaming"]
                  /\ UNCHANGED err
    /\ NoUpdaterCall
    /\ cancels' = NoCancel
    /\ UNCHANGED <<req, read, sharedStore, converted>>

(***************************************************************************)
(* _process_request: the event loop                                         *)
(***************************************************************************)
\* The loop body without its function-call branch.
Classify_ignoresCalls(event) == IF event.final THEN "final" ELSE "update"

\* The branch of the loop body an event takes.
Classify(event) ==
    IF event.final THEN "final"
    ELSE IF ~event.function_calls THEN "update"
    ELSE "function_call"

\* The loop without its break.
AfterComplete_noBreak == "streaming"

\* After a final event's add_artifact and complete: break.
AfterComplete == "done"

\* One iteration of `async for event in self._run_agent(...)`: the runtime
\* yields an event, the body runs up to its next await.
NextEvent(e) ==
    /\ pc[e] = "streaming"
    /\ Len(read[e]) < StreamBound
    /\ \E event \in Events :
        LET conv == _convert_genai_parts_to_a2a(event.parts)
            cls == Classify(event) IN
        /\ read' = [read EXCEPT ![e] = Append(@, event)]
        /\ IF cls = "function_call" THEN
               /\ NoUpdaterCall
               /\ UNCHANGED <<pc, err>>
           ELSE IF ~conv.ok THEN
               /\ Raises(e, conv.err)
               /\ NoUpdaterCall
           ELSE IF cls = "final" THEN
               /\ UpdaterCall(e, req[e].task_id, "add_artifact", conv.val)
               /\ pc' = [pc EXCEPT ![e] = "complete"]
               /\ UNCHANGED err
           ELSE
               /\ UpdaterCall(e, req[e].task_id, "update_status", conv.val)
               /\ UNCHANGED <<pc, err>>
    /\ cancels' = NoCancel
    /\ UNCHANGED <<req, handle, runs, createSeen, sessions, createCalls,
                   objects, sharedStore, converted>>

\* await task_updater.complete(), then break.
Complete(e) ==
    /\ pc[e] = "complete"
    /\ UpdaterCall(e, req[e].task_id, "complete", <<>>)
    /\ pc' = [pc EXCEPT ![e] = AfterComplete]
    /\ cancels' = NoCancel
    /\ UNCHANGED <<req, err, read, handle, runs, createSeen, sessions,
                   createCalls, objects, sharedStore, converted>>

\* A driver that fails the task when the stream ends without a final event.
StreamEnd_fails(e) ==
    /\ pc[e] = "streaming"
    /\ pc' = [pc EXCEPT ![e] = "returned"]
    /\ UpdaterCall(e, req[e].task_id, "failed", <<>>)
    /\ cancels' = NoCancel
    /\ UNCHANGED <<req, err, read, handle, runs, createSeen, sessions,
                   createCalls, objects, sharedStore, converted>>

\* The stream ends: the loop is left and execute returns.
StreamEnd(e) ==
    /\ pc[e] = "streaming"
    /\ pc' = [pc EXCEPT ![e] = "returned"]
    /\ cancels' = NoCancel
    /\ UNCHANGED <<req, err, calls, read, handle, runs, createSeen, taskState,
                   terminals, late, artifacts, sessions, createCalls, objects,
                   sharedStore, converted>>

(***************************************************************************)
(* cancel                                                                   *)
(***************************************************************************)
\* A cancel that marks the task canceled before it raises.
Cancel_marksCanceled(t) ==
    /\ cancels' = [task |-> t, state |-> taskState[t],
                   error |-> "UnsupportedOperationError"]
    /\ taskState' = [taskState EXCEPT ![t] = "canceled"]
    /\ terminals' = [terminals EXCEPT ![t] = @ + 1]
    /\ UNCHANGED <<pc, req, err, calls, read, handle, runs, createSeen,
                   late, artifacts, sessions, createCalls, objects, sharedStore, converted>>

\* cancel: raise ServerError(error=UnsupportedOperationError()).
Cancel(t) ==
    /\ cancels' = [task |-> t, state |-> taskState[t],
                   error |-> "UnsupportedOperationError"]
    /\ UNCHANGED <<pc, req, err, calls, read, handle, runs, createSeen,
                   taskState, terminals, late, artifacts, sessions,
                   createCalls, objects, sharedStore, converted>>

Next ==
    \/ \E e \in Execs : Execute(e)
    \/ \E e \in Execs : StartWork(e)
    \/ \E e \in Execs : ProcessRequest(e)
    \/ \E e \in Execs : NextEvent(e)
    \/ \E e \in Execs : Complete(e)
    \/ \E e \in Execs : StreamEnd(e)
    \/ \E t \in TaskIds : Cancel(t)

Spec == Init /\ [][Next]_vars
SpecShared == InitShared /\ [][Next]_vars
SpecSolo == InitSolo /\ [][Next]_vars

\* The awaited calls return and the stream is finite: an awaited Task Updater
\* call or session-store call is followed by the code after it, and a stream
\* that is being consumed yields its next event or ends.
Returns(e) ==
    /\ WF_vars(StartWork(e))
    /\ WF_vars(ProcessRequest(e))
    /\ WF_vars(Complete(e))
    /\ WF_vars(NextEvent(e) \/ StreamEnd(e))

\* One execution alone whose awaited calls return and whose stream is finite.
SpecLive == InitSolo /\ [][Next]_vars /\ \A e \in Execs : Returns(e)

(***************************************************************************)
(* The part converter on its own                                            *)
(***************************************************************************)
\* A FilePart whose file is neither a FileWithUri nor a FileWithBytes.
OtherFile ==
    [kind |-> "file", text |-> None, file |-> "other", uri |-> None,
     bytes |-> <<>>, mimeType |-> None]

\* Protocol parts handed to _convert_a2a_parts_to_genai.  The bytes strings
\* are "H" and "H\u00e9".
A2aParts ==
    {TextPart("hi"), TextPart(""),
     FileWithUri("gs://doc", "application/pdf"), FileWithUri("gs://doc", None),
     FileWithUri("", "application/pdf"),
     FileWithBytes(<<72, 233>>, "image/png"), FileWithBytes(<<72>>, None),
     FileWithBytes(<<72>>, ""), FileWithBytes(<<>>, "image/png"),
     DataPart, OtherFile}

\* Runtime parts handed to _convert_genai_parts_to_a2a: one payload, none,
\* an unconverted payload, payloads without their content, bytes that are
\* not UTF-8, and several payloads at once.
GenaiParts ==
    {GText("a"), GText(""), GenaiPart(None, NoFileData, NoBlob, FALSE), GCall,
     GenaiPart(None, FileData("gs://doc", "application/pdf"), NoBlob, FALSE),
     GFile(""),
     GenaiPart(None, NoFileData, Blob(<<72, 195, 169>>, "image/png"), FALSE),
     GenaiPart(None, NoFileData, Blob(<<>>, "image/png"), FALSE),
     GenaiPart(None, NoFileData, BlobNoData("image/png"), FALSE),
     GenaiPart(None, NoFileData, Blob(<<255>>, "image/png"), FALSE),
     GenaiPart("a", FileData("", "application/pdf"), NoBlob, FALSE),
     GenaiPart(None, FileData("gs://doc", None), Blob(<<72>>, "image/png"), FALSE),
     GenaiPart("a", NoFileData, NoBlob, TRUE)}

\* The lists of at most n elements of S.
SeqsUpTo(S, n) == UNION {[1..k -> S] : k \in 0..n}

\* The converter is handed a list of protocol parts, or of runtime parts.
ConverterInputs ==
    {[NoConversion EXCEPT !.step = "a2a", !.origin = "protocol", !.a2a = parts] :
        parts \in SeqsUpTo(A2aParts, MaxParts)}
    \cup
    {[NoConversion EXCEPT !.step = "genai", !.origin = "runtime", !.genai = parts] :
        parts \in SeqsUpTo(GenaiParts, MaxParts)}

InitConvert ==
    \E conv0 \in ConverterInputs :
        InitState(FALSE, [e \in Execs |-> "off"], conv0)

ExecutorUnchanged ==
    UNCHANGED <<pc, req, err, calls, read, handle, runs, createSeen, taskState,
                terminals, late, artifacts, sessions, createCalls, objects,
                cancels, sharedStore>>

\* _convert_a2a_parts_to_genai on the list, and _convert_a2a_part_to_genai on
\* each of its parts.
ConvertToGenai ==
    /\ converted.step = "a2a"
    /\ LET whole == _convert_a2a_parts_to_genai(converted.a2a) IN
       converted' =
           [converted EXCEPT
              !.step = IF whole.ok THEN "genai" ELSE "failed",
              !.to_genai = whole,
              !.to_genai_each =
                  [i \in 1..Len(converted.a2a) |->
                      _convert_a2a_part_to_genai(converted.a2a[i])],
              !.genai = whole.val]
    /\ ExecutorUnchanged

\* _convert_genai_parts_to_a2a on the list, and _convert_genai_part_to_a2a on
\* each of its parts.
ConvertToA2a ==
    /\ converted.step = "genai"
    /\ converted' =
           [converted EXCEPT
              !.step = "done",
              !.to_a2a = _convert_genai_parts_to_a2a(converted.genai),
              !.to_a2a_each =
                  [i \in 1..Len(converted.genai) |->
                      _convert_genai_part_to_a2a(converted.genai[i])]]
    /\ ExecutorUnchanged

NextConvert == ConvertToGenai \/ ConvertToA2a

SpecConvert == InitConvert /\ [][NextConvert]_vars

(***************************************************************************)
(* Vocabulary of the properties                                             *)
(***************************************************************************)
Last(q) == q[Len(q)]
Ops(e) == [i \in 1..Len(calls[e]) |-> calls[e][i].op]
Finished(e) == pc[e] \in {"done", "returned", "raised"}

\* The calls of execute itself, before _process_request.
EntryCalls(e) ==
    IF req[e].current_task THEN <<"start_work">> ELSE <<"submit", "start_work">>

\* The calls an execution issued from _process_request.
DriverCalls(e) ==
    IF Len(calls[e]) <= Len(EntryCalls(e)) THEN <<>>
    ELSE SubSeq(calls[e], Len(EntryCalls(e)) + 1, Len(calls[e]))

\* A final event was read, and it is the last event read.
FinalRead(e) == read[e] # <<>> /\ Last(read[e]).final

\* The Working updates the claims expect for a sequence of events: one per
\* non-final event without function call, carrying its converted parts.
RECURSIVE WorkingFor(_)
WorkingFor(events) ==
    IF events = <<>> THEN <<>>
    ELSE (IF ~Head(events).final /\ ~Head(events).function_calls
          THEN <<[op |-> "update_status",
                  parts |-> _convert_genai_parts_to_a2a(Head(events).parts).val]>>
          ELSE <<>>) \o WorkingFor(Tail(events))

\* Every event that is final or carries no function call converts.
Convertible(events) ==
    \A i \in 1..Len(events) :
        (~events[i].final /\ events[i].function_calls)
        \/ _convert_genai_parts_to_a2a(events[i].parts).ok

\* What the driver is expected to have issued once it read a final event and
\* finished: the Working updates, the artifact, Completed.
CompletedCalls(events) ==
    WorkingFor(SubSeq(events, 1, Len(events) - 1))
    \o <<[op |-> "add_artifact",
          parts |-> _convert_genai_parts_to_a2a(Last(events).parts).val],
         [op |-> "complete", parts |-> <<>>]>>

(***************************************************************************)
(* C1                                                                       *)
(***************************************************************************)
\* C1 as stated: whenever an execution has finished on a stream whose last
\* event read is its one final event, it issued exactly one Working update per
\* non-final event without function call, in order, then the artifact of the
\* final event's converted parts and Completed, and read nothing after the
\* final event.
C1_EveryFinalStreamCompletes ==
    \A e \in Execs :
        (Finished(e) /\ FinalRead(e)) =>
            /\ pc[e] = "done"
            /\ DriverCalls(e) = CompletedCalls(read[e])
            /\ \A i \in 1..(Len(read[e]) - 1) : ~read[e][i].final

\* C1 amended: the same, for streams in which every event that is final or
\* carries no function call has only convertible parts; and no event is ever
\* read after a final one.
C1_ConvertibleStreamCompletes ==
    \A e \in Execs :
        /\ \A i \in 1..(Len(read[e]) - 1) : ~read[e][i].final
        /\ (FinalRead(e) /\ Convertible(read[e])) =>
              /\ pc[e] \in {"complete", "done"}
              /\ pc[e] = "done" => DriverCalls(e) = CompletedCalls(read[e])
              /\ pc[e] = "complete" =>
                    DriverCalls(e) \o <<[op |-> "complete", parts |-> <<>>]>>
                        = CompletedCalls(read[e])
        /\ (~FinalRead(e) /\ Convertible(read[e])) =>
              /\ pc[e] \notin {"complete", "done", "raised"} \/ read[e] = <<>>
              /\ DriverCalls(e) = WorkingFor(read[e])

\* An execution completed a stream of a Working event and a final event.
C1_Witness ==
    \E e \in Execs :
        /\ pc[e] = "done"
        /\ Len(read[e]) = 2
        /\ ~read[e][1].final /\ ~read[e][1].function_calls
        /\ Len(DriverCalls(e)) = 3

(***************************************************************************)
(* C2                                                                       *)
(***************************************************************************)
\* C2: for every task at most one terminal transition is recorded and no call
\* is issued to its Task Updater after the terminal transition.
C2_OneTerminalNothingAfter ==
    \A t \in TaskIds : terminals[t] <= 1 /\ ~late[t]

(***************************************************************************)
(* C3                                                                       *)
(***************************************************************************)
\* The calls of one execution are in lifecycle order: Submitted (when there is
\* no current task) first, Working before any event is read and before any
\* Working status, artifact or Completed, Completed right after the artifact
\* and last.
LifecycleOrder(e) ==
    LET ops == Ops(e)
        n == Len(calls[e]) IN
    /\ (read[e] # <<>> \/ pc[e] \in {"streaming", "complete", "done", "returned"})
          => \E j \in 1..n : ops[j] = "start_work"
    /\ \A i \in 1..n :
          /\ ops[i] \in {"update_status", "add_artifact", "complete"}
                => \E j \in 1..(i - 1) : ops[j] = "start_work"
          /\ ops[i] = "submit" => i = 1
          /\ ops[i] = "start_work" =>
                i = (IF req[e].current_task THEN 1 ELSE 2)
          /\ ops[i] = "complete" => (i = n /\ i > 1 /\ ops[i - 1] = "add_artifact")
          /\ ops[i] = "add_artifact" =>
                (i = n \/ (i = n - 1 /\ ops[n] = "complete"))
          /\ ops[i] \notin {"failed", "cancel"}
    /\ (n > 0 /\ ~req[e].current_task) => ops[1] = "submit"

\* The executions that were called on task t.
Targeting(t) == {e \in Execs : pc[e] # "idle" /\ req[e].task_id = t}

\* C3: every execution's transitions are in lifecycle order, and a task that
\* a single execution drives enters Completed from Working only, Working from
\* absent, Submitted or Working only.
C3_Lifecycle ==
    /\ [](\A e \in Execs : LifecycleOrder(e))
    /\ [][\A t \in TaskIds :
            (Cardinality(Targeting(t)') = 1 /\ taskState'[t] # taskState[t]) =>
                /\ taskState'[t] = "completed" => taskState[t] = "working"
                /\ taskState'[t] = "working" => taskState[t] \in {"absent", "submitted"}
                /\ taskState'[t] = "submitted" => taskState[t] = "absent"]_vars

\* An execution went Submitted, Working, Working status, artifact, Completed.
C3_Witness ==
    \E e \in Execs :
        /\ pc[e] = "done"
        /\ Ops(e) = <<"submit", "start_work", "update_status", "add_artifact", "complete">>
        /\ taskState[req[e].task_id] = "completed"

(***************************************************************************)
(* C4                                                                       *)
(***************************************************************************)
ConversionErrors ==
    {"ValueError: Unsupported part type", "ValueError: Unsupported file type",
     "ValueError: File URI is missing", "ValueError: Inline data is missing"}
SessionErrors == {"RuntimeError: Failed to get or create session"}

\* C4: an execution that a conversion or session-resolution error aborted has
\* issued a Failed transition, and the task is Failed.
C4_ErrorsSurfaceAsFailed ==
    \A e \in Execs :
        (pc[e] = "raised" /\ err[e] \in ConversionErrors \cup SessionErrors) =>
            /\ calls[e] # <<>>
            /\ Last(calls[e]).op = "failed"
            /\ taskState[req[e].task_id] = "failed"

(***************************************************************************)
(* C5                                                                       *)
(***************************************************************************)
MalformedRequest ==
    {"ValueError: RequestContext must have task_id and context_id",
     "ValueError: RequestContext must have a message"}

\* The execution was refused before it called anything.
Rejected(e) ==
    /\ pc[e] = "raised"
    /\ err[e] \in MalformedRequest
    /\ calls[e] = <<>>
    /\ handle[e] = 0 /\ createSeen[e] = "" /\ runs[e] = <<>> /\ read[e] = <<>>

\* C5 as stated: a request without task identity, without context identity or
\* without a non-empty message is refused before any call.
C5_EmptyMessageRejected ==
    \A e \in Execs :
        (pc[e] # "idle"
         /\ (~Truthy(req[e].task_id) \/ ~Truthy(req[e].context_id)
             \/ ~req[e].message.present \/ req[e].message.parts = <<>>))
        => Rejected(e)

\* C5 amended: a request without task identity, without context identity or
\* without a message (None) is refused with the ValueError before any Task
\* Updater call and before any session is read or created, and the refusing
\* step changes neither a task nor the session store.
C5_MissingRejected ==
    /\ [](\A e \in Execs :
            (pc[e] # "idle"
             /\ (~Truthy(req[e].task_id) \/ ~Truthy(req[e].context_id)
                 \/ ~req[e].message.present))
            => Rejected(e))
    /\ [][\A e \in Execs :
            (pc[e] = "idle" /\ pc'[e] = "raised") =>
                /\ err'[e] \in MalformedRequest
                /\ UNCHANGED <<calls, taskState, terminals, late, artifacts,
                               sessions, createCalls, objects, handle, runs>>]_vars

\* A request with both identities and no message was refused while the other
\* execution had a task in Working.
C5_Witness ==
    \E e \in Execs :
        /\ Rejected(e)
        /\ Truthy(req[e].task_id) /\ Truthy(req[e].context_id)
        /\ ~req[e].message.present
        /\ \E t \in TaskIds : taskState[t] = "working"

(***************************************************************************)
(* C6                                                                       *)
(***************************************************************************)
\* C6: two executions on the same context_id get the same session object; a
\* session object is only ever stored under a key that holds none, so no key
\* gets a second one; and a resolution fails only when create_session gave no
\* session, never because the other execution resolved the key.
C6_RacingResolutions ==
    /\ [](\A a \in Execs, b \in Execs :
            (req[a].context_id = req[b].context_id
             /\ handle[a] # 0 /\ handle[b] # 0) => handle[a] = handle[b])
    /\ [][/\ \A k \in ContextIds : sessions'[k] # sessions[k] => sessions[k] = 0
          /\ \A e \in Execs :
                (err'[e] # err[e] /\ pc[e] = "process" /\ createSeen'[e] # "")
                    => (createSeen'[e] = "none"
                        /\ sessions'[req[e].context_id] = 0)]_vars

\* Both executions run on the same context_id at the same time, each holding
\* the one session, which exactly one of them created.
C6_Witness ==
    /\ req["e1"].context_id = req["e2"].context_id
    /\ pc["e1"] = "streaming" /\ pc["e2"] = "streaming"
    /\ handle["e1"] # 0 /\ handle["e1"] = handle["e2"]
    /\ createCalls[req["e1"].context_id] = 1

(***************************************************************************)
(* C7                                                                       *)
(***************************************************************************)
\* C7: every session object an execution holds is the one stored under its
\* key, the store never holds more objects than keys were created, and once
\* a key holds a session it keeps that session and create_session is not
\* called for it again.
C7_IdempotentResolution ==
    /\ [](/\ \A e \in Execs :
               handle[e] # 0 => handle[e] = sessions[req[e].context_id]
          /\ objects = Cardinality({k \in ContextIds : sessions[k] # 0})
          /\ \A e \in Execs :
               createSeen[e] = "" /\ pc[e] \in {"streaming", "complete", "done", "returned"}
                   => \E f \in Execs \ {e} :
                         /\ createSeen[f] = "session"
                         /\ req[f].context_id = req[e].context_id)
    /\ [][\A k \in ContextIds :
            sessions[k] # 0 =>
                (sessions'[k] = sessions[k] /\ createCalls'[k] = createCalls[k])]_vars

\* The first execution for a context created the session and finished; a
\* later one resolved the same key to it without a create_session call.
C7_Witness ==
    \E e \in Execs, f \in Execs :
        /\ e # f /\ req[e].context_id = req[f].context_id
        /\ pc[e] = "done" /\ createSeen[e] = "session"
        /\ pc[f] = "streaming" /\ createSeen[f] = "" /\ handle[f] = handle[e]
        /\ createCalls[req[e].context_id] = 1

(***************************************************************************)
(* C8                                                                       *)
(***************************************************************************)
\* C8: an execution whose create_session reported that the session already
\* exists goes on without error, holding the existing session.
C8_AlreadyExistsIsSuccess ==
    \A e \in Execs :
        createSeen[e] = "exists" =>
            /\ err[e] = ""
            /\ handle[e] # 0 /\ handle[e] = sessions[req[e].context_id]

(***************************************************************************)
(* C9                                                                       *)
(***************************************************************************)
\* C9: every cancel call raises the unsupported-operation error and changes
\* nothing: no Task Updater call, no task state, no session.
C9_CancelUnsupported ==
    [][cancels' # NoCancel =>
         /\ cancels'.error = "UnsupportedOperationError"
         /\ cancels'.state = taskState'[cancels'.task]
         /\ UNCHANGED <<pc, req, err, calls, read, handle, runs, createSeen,
                        taskState, terminals, late, artifacts, sessions,
                        createCalls, objects>>]_vars

\* cancel was called on a Completed task while another task is Working.
C9_Witness ==
    /\ cancels.error = "UnsupportedOperationError"
    /\ cancels.state = "completed"
    /\ taskState[cancels.task] = "completed"
    /\ \E t \in TaskIds : taskState[t] = "working"

(***************************************************************************)
(* C10                                                                      *)
(***************************************************************************)
\* Only function-call events, then possibly a final event.
OnlyCallsThenFinal(events) ==
    \A i \in 1..Len(events) :
        \/ (~events[i].final /\ events[i].function_calls)
        \/ (events[i].final /\ i = Len(events))

\* C10: an execution whose stream so far holds only function-call events and
\* then a final event has issued no Working status update from its event loop.
C10_NoWorkingForCalls ==
    \A e \in Execs :
        OnlyCallsThenFinal(read[e]) =>
            \A i \in 1..Len(calls[e]) : calls[e][i].op # "update_status"

\* A function-call event and a final event were read, and the task Completed.
C10_Witness ==
    \E e \in Execs :
        /\ pc[e] = "done"
        /\ Len(read[e]) = 2
        /\ read[e][1].function_calls /\ ~read[e][1].final
        /\ Ops(e) = EntryCalls(e) \o <<"add_artifact", "complete">>

(***************************************************************************)
(* C11                                                                      *)
(***************************************************************************)
\* The Working status updates an execution issued, in order.
IsWorkingUpdate(c) == c.op = "update_status"
WorkingUpdates(e) == SelectSeq(calls[e], IsWorkingUpdate)

\* The events before the first final one.
RECURSIVE BeforeFinal(_)
BeforeFinal(events) ==
    IF events = <<>> \/ Head(events).final THEN <<>>
    ELSE <<Head(events)>> \o BeforeFinal(Tail(events))

\* The events read whose handling did not raise: a conversion error is raised
\* on the event read last.
Handled(e) ==
    IF pc[e] = "raised" /\ read[e] # <<>>
    THEN SubSeq(read[e], 1, Len(read[e]) - 1)
    ELSE read[e]

\* C11 as stated: the Working status updates of an execution are, one for
\* one and in order, the non-final events without function call read before
\* the first final event.
C11_UpdatesMatchEvents ==
    \A e \in Execs : WorkingUpdates(e) = WorkingFor(BeforeFinal(read[e]))

\* C11 amended: the same, except for an event whose parts did not convert:
\* it raises, ends the execution and has no update.
C11_UpdatesMatchHandledEvents ==
    \A e \in Execs : WorkingUpdates(e) = WorkingFor(BeforeFinal(Handled(e)))

\* Two different Working updates were issued, in the order of their events,
\* with a function-call event between them.
C11_Witness ==
    /\ Len(read["e1"]) = 3
    /\ read["e1"][2].function_calls
    /\ Len(WorkingUpdates("e1")) = 2
    /\ WorkingUpdates("e1")[1].parts # WorkingUpdates("e1")[2].parts

(***************************************************************************)
(* C12                                                                      *)
(***************************************************************************)
\* C12: an execution whose stream ended without a final event returned
\* without error, having issued nothing but Submitted, Working and Working
\* status updates; a task it alone drives is left Working, without artifact
\* and without terminal transition.
C12_NoFinalLeavesWorking ==
    \A e \in Execs :
        pc[e] = "returned" =>
            /\ err[e] = ""
            /\ \A i \in 1..Len(read[e]) : ~read[e][i].final
            /\ \A i \in 1..Len(calls[e]) :
                  calls[e][i].op \in {"submit", "start_work", "update_status"}
            /\ Targeting(req[e].task_id) = {e} =>
                  /\ taskState[req[e].task_id] = "working"
                  /\ artifacts[req[e].task_id] = <<>>
                  /\ terminals[req[e].task_id] = 0

\* A stream of one Working fragment ended: the execution returned and its
\* task is Working.
C12_Witness ==
    \E e \in Execs :
        /\ pc[e] = "returned"
        /\ Len(read[e]) = 1 /\ Len(WorkingUpdates(e)) = 1
        /\ Targeting(req[e].task_id) = {e}
        /\ taskState[req[e].task_id] = "working"

(***************************************************************************)
(* C13                                                                      *)
(***************************************************************************)
\* A part of the Text, FileByReference or FileInline variant.
ConvertibleVariant(p) ==
    p.kind = "text" \/ (p.kind = "file" /\ p.file \in {"uri", "bytes"})

\* The protocol list was converted to runtime parts, and each runtime part
\* back with _convert_genai_part_to_a2a.
WentRoundTrip == converted.step = "done" /\ converted.origin = "protocol"

\* Part i came back as it went in.
CameBack(i) ==
    /\ converted.to_a2a_each[i].ok
    /\ converted.to_a2a_each[i].val = converted.a2a[i]

\* C13 as stated: every part of the Text, FileByReference and FileInline
\* variants, Text with an empty string and FileInline without mime-type
\* included, comes back from toProtocol(toRuntime(p)) as an equal part.
C13_EveryPartRoundTrips ==
    WentRoundTrip =>
        \A i \in 1..Len(converted.a2a) :
            ConvertibleVariant(converted.a2a[i]) => CameBack(i)

\* A part with content: non-empty text, non-empty uri, or non-empty bytes
\* with a non-empty mime-type.
WithContent(p) ==
    \/ (p.kind = "text" /\ Truthy(p.text))
    \/ (p.kind = "file" /\ p.file = "uri" /\ Truthy(p.uri))
    \/ (p.kind = "file" /\ p.file = "bytes" /\ p.bytes # <<>> /\ Truthy(p.mimeType))

\* C13 amended: a Text part with non-empty text, a FileByReference part with
\* non-empty uri (whatever its mime-type) and a FileInline part with
\* non-empty bytes and a non-empty mime-type come back as an equal part.
C13_PartWithContentRoundTrips ==
    WentRoundTrip =>
        \A i \in 1..Len(converted.a2a) :
            WithContent(converted.a2a[i]) => CameBack(i)

\* Inline bytes with a non-ASCII character, a file reference without
\* mime-type and a text went through both conversions.
C13_Witness ==
    /\ WentRoundTrip
    /\ converted.a2a = <<FileWithBytes(<<72, 233>>, "image/png"),
                         FileWithUri("gs://doc", None), TextPart("hi")>>
    /\ converted.to_a2a.val = converted.a2a

(***************************************************************************)
(* C14                                                                      *)
(***************************************************************************)
\* A runtime part whose only payload is of a kind the converter does not
\* know (a function call).
UnknownPayloadOnly(p) ==
    /\ p.function_call
    /\ ~Truthy(p.text) /\ ~p.file_data.set /\ ~p.inline_data.set

\* C14: a list conversion over a part of another variant fails with the
\* unsupported-part-type error, in both directions: a protocol list with a
\* part that is neither Text nor a known file, a runtime list with a part
\* whose only payload is of an unknown kind.
C14_UnknownVariantFails ==
    /\ (converted.step \in {"genai", "failed", "done"} /\ converted.origin = "protocol"
        /\ \E i \in 1..Len(converted.a2a) : ~ConvertibleVariant(converted.a2a[i]))
       => ~converted.to_genai.ok
    /\ (converted.step = "done"
        /\ \E i \in 1..Len(converted.genai) : UnknownPayloadOnly(converted.genai[i]))
       => ~converted.to_a2a.ok

(***************************************************************************)
(* C15                                                                      *)
(***************************************************************************)
\* A runtime part with no content field populated: no text (or empty text),
\* no file_data, no inline_data.
NoContent(p) == ~Truthy(p.text) /\ ~p.file_data.set /\ ~p.inline_data.set

\* The single-part results of the parts of a list that have content, in order.
RECURSIVE ResultsOfParts(_, _)
ResultsOfParts(parts, results) ==
    IF parts = <<>> THEN <<>>
    ELSE (IF NoContent(Head(parts)) THEN <<>> ELSE <<Head(results)>>)
         \o ResultsOfParts(Tail(parts), Tail(results))

\* C15: the list conversion returns the conversions of the parts that have
\* content, in their order, and nothing for the others; it fails only when the
\* conversion of a part that has content fails.
C15_OmitsPartsWithoutContent ==
    converted.step = "done" =>
        LET kept == ResultsOfParts(converted.genai, converted.to_a2a_each) IN
        /\ converted.to_a2a.ok <=> \A i \in 1..Len(kept) : kept[i].ok
        /\ converted.to_a2a.ok =>
              converted.to_a2a.val = [i \in 1..Len(kept) |-> kept[i].val]

\* Of three parts the middle one had no content: the other two came out, in
\* order.
C15_Witness ==
    /\ converted.step = "done"
    /\ Len(converted.genai) = 3
    /\ ~NoContent(converted.genai[1])
    /\ NoContent(converted.genai[2]) /\ ~converted.genai[2].function_call
    /\ ~NoContent(converted.genai[3])
    /\ converted.to_a2a.ok
    /\ Len(converted.to_a2a.val) = 2
    /\ converted.to_a2a.val[1] # converted.to_a2a.val[2]
    /\ converted.to_a2a.val[1] = converted.to_a2a_each[1].val

(***************************************************************************)
(* C17                                                                      *)
(***************************************************************************)
\* A file-by-URI part whose uri is empty; an inline part whose bytes are
\* absent or empty.
EmptyUriPart(p) ==
    ~Truthy(p.text) /\ p.file_data.set /\ ~Truthy(p.file_data.file_uri)
NoBytesPart(p) ==
    /\ ~Truthy(p.text) /\ ~p.file_data.set /\ p.inline_data.set
    /\ (~p.inline_data.has_data \/ p.inline_data.data = <<>>)

\* The first part of a list whose single conversion is attempted and fails
\* (0 when there is none).
FirstFailing(parts, results) ==
    LET bad == {i \in 1..Len(parts) : ~NoContent(parts[i]) /\ ~results[i].ok} IN
    IF bad = {} THEN 0 ELSE CHOOSE i \in bad : \A j \in bad : i <= j

\* C17: from the runtime side a file-by-URI part with empty uri fails with
\* "File URI is missing" and an inline part without bytes with "Inline data is
\* missing", converted alone; a list that holds such a part fails, with that
\* error when the part is the first to fail.
C17_EmptyFileFails ==
    converted.step = "done" =>
        \A i \in 1..Len(converted.genai) :
            LET p == converted.genai[i]
                r == converted.to_a2a_each[i] IN
            /\ EmptyUriPart(p) =>
                  /\ ~r.ok /\ r.err = "ValueError: File URI is missing"
                  /\ ~converted.to_a2a.ok
            /\ NoBytesPart(p) =>
                  /\ ~r.ok /\ r.err = "ValueError: Inline data is missing"
                  /\ ~converted.to_a2a.ok
            /\ ((EmptyUriPart(p) \/ NoBytesPart(p))
                /\ FirstFailing(converted.genai, converted.to_a2a_each) = i)
                  => converted.to_a2a.err = r.err

\* A list with a good text, then an inline part without bytes, then a file
\* part with empty uri: the list failed with the inline part's error.
C17_Witness ==
    /\ converted.step = "done"
    /\ Len(converted.genai) = 3
    /\ converted.genai[1] = GText("a")
    /\ NoBytesPart(converted.genai[2])
    /\ EmptyUriPart(converted.genai[3])
    /\ converted.to_a2a.err = "ValueError: Inline data is missing"

(***************************************************************************)
(* C16                                                                      *)
(***************************************************************************)
\* A runtime part that cannot be converted: its only payload is of an unknown
\* kind, or it has content and its conversion raises.
CannotConvert(p) ==
    UnknownPayloadOnly(p) \/ (~NoContent(p) /\ ~_convert_genai_part_to_a2a(p).ok)

HasUnconvertible(event) ==
    \E i \in 1..Len(event.parts) : CannotConvert(event.parts[i])

\* C16: one unconvertible part fails the whole message.  The runtime is never
\* invoked for an inbound message with a part that does not convert; and
\* reading an event with a part that cannot be converted issues no Task
\* Updater call at all: no artifact (and no Completed after it) for a final
\* event, no Working status for an interim one.
C16_UnconvertiblePartFailsMessage ==
    /\ [](\A e \in Execs :
            (\E i \in 1..Len(req[e].message.parts) :
                ~_convert_a2a_part_to_genai(req[e].message.parts[i]).ok)
            => runs[e] = <<>>)
    /\ [][\A e \in Execs :
            (read'[e] # read[e] /\ HasUnconvertible(Last(read'[e])))
            => (calls'[e] = calls[e] /\ pc'[e] # "complete")]_vars

(***************************************************************************)
(* C18                                                                      *)
(***************************************************************************)
\* C18: an execution whose create_session returned no session (after
\* get_session returned none) has failed with the session-resolution error,
\* never invoked the runtime, read no event and issued neither artifact nor
\* Completed.
C18_NoSessionNoRun ==
    \A e \in Execs :
        createSeen[e] = "none" =>
            /\ pc[e] = "raised"
            /\ err[e] = "RuntimeError: Failed to get or create session"
            /\ runs[e] = <<>> /\ read[e] = <<>> /\ handle[e] = 0
            /\ \A i \in 1..Len(calls[e]) :
                  calls[e][i].op \notin {"add_artifact", "complete", "update_status"}

\* An execution reached _upsert_session, was started as Working, and the
\* store answered none twice.
C18_Witness ==
    \E e \in Execs :
        /\ createSeen[e] = "none"
        /\ pc[e] = "raised"
        /\ Ops(e) = <<"submit", "start_work">>
        /\ createCalls[req[e].context_id] = 1

(***************************************************************************)
(* C19                                                                      *)
(***************************************************************************)
\* How many calls of execution e are op.
Issued(e, op) == Cardinality({i \in 1..Len(calls[e]) : calls[e][i].op = op})

\* C19: only the last event an execution has read can be final - the events
\* read number the position of the first final event, nothing is pulled from
\* the stream after it - and an execution issues at most one artifact and at
\* most one Completed.
C19_StopsAtFirstFinal ==
    \A e \in Execs :
        /\ \A i \in 1..Len(read[e]) : read[e][i].final => i = Len(read[e])
        /\ (pc[e] \in {"complete", "done"}) => FinalRead(e)
        /\ Issued(e, "add_artifact") <= 1
        /\ Issued(e, "complete") <= 1

\* An execution is done after one event, final, while the stream could have
\* yielded more (further final events included).
C19_Witness ==
    \E e \in Execs :
        /\ pc[e] = "done"
        /\ Len(read[e]) = 1 /\ Len(read[e]) < StreamBound
        /\ read[e][1].final
        /\ Issued(e, "add_artifact") = 1 /\ Issued(e, "complete") = 1

(***************************************************************************)
(* C20                                                                      *)
(***************************************************************************)
\* What _process_request issues for the events read when it runs alone.
RECURSIVE AloneDriver(_, _)
AloneDriver(events, completed) ==
    IF events = <<>> THEN <<>>
    ELSE LET event == Head(events)
             conv == _convert_genai_parts_to_a2a(event.parts) IN
         IF ~event.final /\ event.function_calls
         THEN AloneDriver(Tail(events), completed)
         ELSE IF ~conv.ok THEN <<>>
         ELSE IF event.final
         THEN <<[op |-> "add_artifact", parts |-> conv.val]>>
              \o (IF completed THEN <<[op |-> "complete", parts |-> <<>>]>> ELSE <<>>)
         ELSE <<[op |-> "update_status", parts |-> conv.val]>>
              \o AloneDriver(Tail(events), completed)

\* The calls an execution issues when it runs alone, from its own request,
\* its own position and the events it read.
AloneCalls(e) ==
    IF pc[e] = "idle" \/ Validate(req[e].task_id, req[e].context_id, req[e].message) # ""
    THEN <<>>
    ELSE IF pc[e] = "start_work" THEN <<[op |-> "submit", parts |-> <<>>]>>
    ELSE [i \in 1..Len(EntryCalls(e)) |-> [op |-> EntryCalls(e)[i], parts |-> <<>>]]
         \o AloneDriver(read[e], pc[e] = "done")

\* The executions that have issued calls for task t.
Drives(t) == {e \in Execs : calls[e] # <<>> /\ req[e].task_id = t}

\* The state, artifacts and terminal transitions a sequence of calls leaves.
RECURSIVE TaskAfter(_, _)
TaskAfter(cs, task) ==
    IF cs = <<>> THEN task
    ELSE TaskAfter(Tail(cs),
            [state |-> StateAfter(Head(cs).op, task.state),
             artifacts |-> IF Head(cs).op = "add_artifact"
                           THEN Append(task.artifacts, Head(cs).parts)
                           ELSE task.artifacts,
             terminals |-> IF Terminal(Head(cs).op)
                           THEN task.terminals + 1 ELSE task.terminals])

NoTask == [state |-> "absent", artifacts |-> <<>>, terminals |-> 0]
TaskNow(t) ==
    [state |-> taskState[t], artifacts |-> artifacts[t], terminals |-> terminals[t]]

\* C20: under every interleaving each execution's calls are those it issues
\* alone; it invokes the runtime with its own context_id and the session the
\* store keeps under that id; executions of different contexts hold different
\* sessions; and what is recorded for a task that one execution drives is what
\* that execution's calls alone leave, a task nobody drives staying absent.
C20_NoSharedState ==
    /\ \A e \in Execs :
        /\ calls[e] = AloneCalls(e)
        /\ runs[e] # <<>> =>
              /\ Len(runs[e]) = 1
              /\ runs[e][1].session_id = req[e].context_id
              /\ handle[e] # 0 /\ handle[e] = sessions[req[e].context_id]
    /\ \A e1 \in Execs, e2 \in Execs :
          (runs[e1] # <<>> /\ runs[e2] # <<>> /\ req[e1].context_id # req[e2].context_id)
          => handle[e1] # handle[e2]
    /\ \A t \in TaskIds :
          /\ Drives(t) = {} => TaskNow(t) = NoTask
          /\ \A e \in Execs : Drives(t) = {e} => TaskNow(t) = TaskAfter(calls[e], NoTask)

\* Two executions of different tasks and contexts both completed after
\* different streams, each task holding the one artifact of its execution.
C20_Witness ==
    /\ pc["e1"] = "done" /\ pc["e2"] = "done"
    /\ req["e1"].context_id # req["e2"].context_id
    /\ req["e1"].task_id # req["e2"].task_id
    /\ Len(read["e1"]) = 2 /\ Len(read["e2"]) = 1
    /\ Issued("e1", "update_status") = 1 /\ Issued("e2", "update_status") = 0
    /\ Len(artifacts[req["e1"].task_id]) = 1 /\ Len(artifacts[req["e2"].task_id]) = 1
    /\ sessions["c1"] # 0 /\ sessions["c2"] # 0 /\ sessions["c1"] # sessions["c2"]

(***************************************************************************)
(* C21                                                                      *)
(***************************************************************************)
\* The request of execution e passed the checks of execute.
Accepted(e) ==
    /\ pc[e] \notin {"idle", "off"}
    /\ Validate(req[e].task_id, req[e].context_id, req[e].message) = ""

\* C21: an accepted execution of a request without current task has issued
\* Submitted as its first call, once, and Working right after it; an accepted
\* execution of a request with a current task has issued no Submitted and
\* Working as its first call; an execution that was not accepted issued
\* nothing.
C21_SubmittedIffNoTask ==
    \A e \in Execs :
        /\ (Accepted(e) /\ ~req[e].current_task) =>
              /\ calls[e] # <<>> /\ Ops(e)[1] = "submit"
              /\ Issued(e, "submit") = 1
              /\ Len(calls[e]) >= 2 => Ops(e)[2] = "start_work"
              /\ pc[e] # "start_work" => Len(calls[e]) >= 2
        /\ (Accepted(e) /\ req[e].current_task) =>
              /\ calls[e] # <<>> /\ Ops(e)[1] = "start_work"
              /\ Issued(e, "submit") = 0
        /\ ~Accepted(e) => calls[e] = <<>>

\* One execution created the task (Submitted, Working), the other was run
\* for the existing task and began with Working.
C21_Witness ==
    \E e1 \in Execs, e2 \in Execs :
        /\ req[e1].task_id = req[e2].task_id
        /\ ~req[e1].current_task /\ req[e2].current_task
        /\ Len(calls[e1]) >= 2 /\ Ops(e1)[1] = "submit" /\ Ops(e1)[2] = "start_work"
        /\ Len(calls[e2]) >= 2 /\ Ops(e2)[1] = "start_work"

(***************************************************************************)
(* C22                                                                      *)
(***************************************************************************)
\* The executions of task t that took the final branch up to add_artifact.
FinalProcessed(t) ==
    {e \in Execs : req[e].task_id = t /\ Issued(e, "add_artifact") > 0}

\* C22: a Completed task has exactly one artifact, the converted parts of the
\* final event of an execution for it; a task for which no final event was
\* processed has none; within an execution Completed comes right after the
\* artifact and never without it.
C22_CompletedHasOneArtifact ==
    /\ \A t \in TaskIds :
          /\ taskState[t] = "completed" =>
                /\ Len(artifacts[t]) = 1
                /\ \E e \in FinalProcessed(t) :
                      /\ FinalRead(e)
                      /\ artifacts[t][1] =
                            _convert_genai_parts_to_a2a(Last(read[e]).parts).val
          /\ FinalProcessed(t) = {} => artifacts[t] = <<>>
    /\ \A e \in Execs : \A i \in 1..Len(calls[e]) :
          calls[e][i].op = "complete" => (i > 1 /\ calls[e][i - 1].op = "add_artifact")

(***************************************************************************)
(* C23                                                                      *)
(***************************************************************************)
\* C23: the step that reads a non-final event with a function call issues no
\* Task Updater call, changes no task's state, artifacts or terminal count,
\* raises nothing and leaves the driver in the loop.
C23_FunctionCallEventIsSilent ==
    [][\A e \in Execs :
         (read'[e] # read[e] /\ ~Last(read'[e]).final /\ Last(read'[e]).function_calls)
         => /\ calls' = calls
            /\ taskState' = taskState /\ artifacts' = artifacts
            /\ terminals' = terminals /\ late' = late
            /\ pc'[e] = "streaming" /\ err'[e] = err[e]]_vars

\* The driver read a function-call event that carries text as well, issued
\* nothing for it, and went on to complete on the next event.
C23_Witness ==
    \E e \in Execs :
        /\ Len(read[e]) = 2
        /\ ~read[e][1].final /\ read[e][1].function_calls
        /\ \E i \in 1..Len(read[e][1].parts) : Truthy(read[e][1].parts[i].text)
        /\ pc[e] = "done"
        /\ DriverCalls(e) = <<calls[e][Len(calls[e]) - 1], Last(calls[e])>>
        /\ Last(calls[e]).op = "complete"

(***************************************************************************)
(* C24                                                                      *)
(***************************************************************************)
Started(e) == pc[e] \notin {"idle", "off"}

\* An execution that is consuming its stream moves only when the stream
\* yields an event or ends: any other step leaves it where it is, with the
\* calls it had issued and the state of its task.
StalledStreamStalls ==
    [][\A e \in Execs :
         (pc[e] = "streaming" /\ read'[e] = read[e] /\ pc'[e] # "returned")
         => /\ pc'[e] = "streaming"
            /\ calls'[e] = calls[e]
            /\ taskState'[req[e].task_id] = taskState[req[e].task_id]]_vars

\* C24 as stated: every started execution terminates; one that read a final
\* event ends Completed, one that did not ends when the stream is exhausted;
\* a stalled stream stalls the execution.
C24_EndsCompletedOnFinal ==
    /\ \A e \in Execs : Started(e) ~> Finished(e)
    /\ [](\A e \in Execs :
            (Finished(e) /\ FinalRead(e)) =>
                (pc[e] = "done" /\ taskState[req[e].task_id] = "completed"))
    /\ StalledStreamStalls

\* C24 amended: every started execution terminates; when every event it
\* handled converts it ends Completed after a final event and returns with
\* the stream exhausted otherwise; an event that does not convert ends it
\* with the exception; a stalled stream stalls the execution.
C24_FiniteStreamTerminates ==
    /\ \A e \in Execs : Started(e) ~> Finished(e)
    /\ [](\A e \in Execs :
            (Finished(e) /\ read[e] # <<>>) =>
                /\ (FinalRead(e) /\ Convertible(read[e])) =>
                      (pc[e] = "done" /\ taskState[req[e].task_id] = "completed")
                /\ (~FinalRead(e) /\ Convertible(read[e])) =>
                      (pc[e] = "returned" /\ taskState[req[e].task_id] = "working")
                /\ ~Convertible(read[e]) =>
                      (pc[e] = "raised" /\ taskState[req[e].task_id] = "working"))
    /\ StalledStreamStalls

\* The stream was exhausted without a final event: the execution returned
\* and the task stays Working.
C24_Witness ==
    /\ pc["e1"] = "returned"
    /\ Len(read["e1"]) = StreamBound
    /\ \A i \in 1..Len(read["e1"]) : ~read["e1"][i].final
    /\ taskState[req["e1"].task_id] = "working"

(***************************************************************************)
(* C25                                                                      *)
(***************************************************************************)
\* The executions of context c that hold a session.
Holding(c) == {e \in Execs : req[e].context_id = c /\ handle[e] # 0}

\* C25: a session in the store is never removed or replaced; a session is
\* put in the store only for a key that had none, by an execution resolving
\* that key as its context_id before any other execution holds a session of
\* it, and that execution gets the session put there; cancel and a rejected
\* execute leave the store as it is.
C25_SessionsOnlyGrow ==
    /\ [][\A c \in ContextIds :
            /\ sessions[c] # 0 => sessions'[c] = sessions[c]
            /\ sessions'[c] # sessions[c] =>
                  /\ Holding(c) = {}
                  /\ \E e \in Execs :
                        /\ pc[e] = "process" /\ req[e].context_id = c
                        /\ createSeen'[e] = "session"
                        /\ handle'[e] = sessions'[c]
                        /\ Holding(c)' = {e}]_vars
    /\ [][(cancels' # NoCancel \/ \E e \in Execs : pc[e] = "idle" /\ pc'[e] # "idle")
          => (sessions' = sessions /\ createCalls' = createCalls
              /\ objects' = objects)]_vars
    /\ [](\A c \in ContextIds :
            Cardinality({e \in Execs : req[e].context_id = c
                                        /\ createSeen[e] = "session"}) <= 1)

\* Two executions of one context: the first created the session, the second
\* found it; a cancel was just refused and the session is still there.
C25_Witness ==
    /\ cancels # NoCancel
    /\ \E e1 \in Execs, e2 \in Execs :
          /\ req[e1].context_id = req[e2].context_id
          /\ createSeen[e1] = "session" /\ createSeen[e2] = ""
          /\ handle[e1] # 0 /\ handle[e2] = handle[e1]
          /\ sessions[req[e1].context_id] = handle[e1]

(***************************************************************************)
(* C26                                                                      *)
(***************************************************************************)
\* The request of e was accepted and its message has a part that does not
\* convert.
InboundUnconvertible(e) ==
    Accepted(e) /\ ~_convert_a2a_parts_to_genai(req[e].message.parts).ok

\* C26: an execution whose inbound message does not convert gets no further
\* than the conversion; once it raised, it has issued Submitted (if any) and
\* Working and nothing else, with the conversion error, it neither created
\* nor holds a session, invoked no runtime and read no event; the raising
\* step leaves the session store as it is and, for a task of this execution
\* alone, finds and leaves the task Working.
C26_InboundConvertedAfterWorking ==
    /\ [](\A e \in Execs :
            InboundUnconvertible(e) =>
                /\ pc[e] \in {"start_work", "process", "raised"}
                /\ createSeen[e] = "" /\ handle[e] = 0
                /\ runs[e] = <<>> /\ read[e] = <<>>
                /\ pc[e] = "raised" =>
                      /\ Ops(e) = EntryCalls(e)
                      /\ err[e] = _convert_a2a_parts_to_genai(req[e].message.parts).err)
    /\ [][\A e \in Execs :
            (InboundUnconvertible(e) /\ pc[e] = "process" /\ pc'[e] = "raised") =>
                /\ sessions' = sessions /\ createCalls' = createCalls
                /\ objects' = objects
                /\ Targeting(req[e].task_id) = {e} =>
                      /\ taskState[req[e].task_id] = "working"
                      /\ taskState'[req[e].task_id] = "working"]_vars

\* An execution raised on its inbound message after Submitted and Working,
\* with no session for its context in the store.
C26_Witness ==
    \E e \in Execs :
        /\ InboundUnconvertible(e) /\ pc[e] = "raised"
        /\ Ops(e) = <<"submit", "start_work">>
        /\ taskState[req[e].task_id] = "working"
        /\ sessions[req[e].context_id] = 0
        /\ createCalls[req[e].context_id] = 0

(***************************************************************************)
(* C27                                                                      *)
(***************************************************************************)
\* C27: an execution invokes the runtime at most once, and has done so
\* whenever it is in or past the event loop; the invocation names the
\* request's context_id as session id and the fixed user, the execution holds
\* the session resolved for it, and that session is the one in the store
\* under that id.
C27_RuntimeRunsOnResolvedSession ==
    \A e \in Execs :
        /\ Len(runs[e]) <= 1
        /\ (read[e] # <<>> \/ pc[e] \in {"streaming", "complete", "done", "returned"})
              => Len(runs[e]) = 1
        /\ runs[e] # <<>> <=> handle[e] # 0
        /\ runs[e] # <<>> =>
              /\ runs[e][1].session_id = req[e].context_id
              /\ runs[e][1].user_id = user_id
              /\ sessions[req[e].context_id] # 0
              /\ sessions[req[e].context_id] = handle[e]
              /\ createSeen[e] \in {"", "session"}

\* An execution ran the runtime on a session it found in the store, created
\* by the other execution of the same context.
C27_Witness ==
    \E e \in Execs, o \in Execs :
        /\ pc[e] = "done" /\ Len(runs[e]) = 1
        /\ createSeen[e] = "" /\ createSeen[o] = "session"
        /\ runs[e][1].session_id = req[o].context_id
        /\ handle[e] = handle[o]

(***************************************************************************)
(* C28                                                                      *)
(***************************************************************************)
\* An event without content (no parts), or whose parts all have nothing in
\* them: no text or an empty one, no file_data, no inline_data, no other
\* payload.
EmptyEvent(event) ==
    \A i \in 1..Len(event.parts) :
        NoContent(event.parts[i]) /\ ~event.parts[i].function_call

\* C28: the step that reads an empty event raises nothing and acts by the
\* event's class: for a final one it adds an artifact with an empty part list
\* and goes on to complete, for a non-final one without function calls it
\* issues a Working status with an empty part list and stays in the loop; and
\* an execution that is done after an empty final event issued the empty
\* artifact and Completed last.
C28_EmptyEventStillHandled ==
    /\ [][\A e \in Execs :
            (read'[e] # read[e] /\ EmptyEvent(Last(read'[e]))) =>
                /\ err'[e] = err[e] /\ pc'[e] # "raised"
                /\ Last(read'[e]).final =>
                      /\ calls'[e] = Append(calls[e], [op |-> "add_artifact", parts |-> <<>>])
                      /\ pc'[e] = "complete"
                /\ (~Last(read'[e]).final /\ ~Last(read'[e]).function_calls) =>
                      /\ calls'[e] = Append(calls[e], [op |-> "update_status", parts |-> <<>>])
                      /\ pc'[e] = "streaming"]_vars
    /\ [](\A e \in Execs :
            (pc[e] = "done" /\ EmptyEvent(Last(read[e]))) =>
                /\ Len(calls[e]) >= 2
                /\ calls[e][Len(calls[e]) - 1] = [op |-> "add_artifact", parts |-> <<>>]
                /\ Last(calls[e]).op = "complete"
                /\ taskState[req[e].task_id] = "completed"
                /\ Last(artifacts[req[e].task_id]) = <<>>)

\* An execution read an event without content, then a final event whose only
\* part is an empty text: an empty Working status, an empty artifact,
\* Completed.
C28_Witness ==
    /\ pc["e1"] = "done"
    /\ read["e1"] = <<Event(FALSE, FALSE, <<>>), Event(TRUE, FALSE, <<GText("")>>)>>
    /\ DriverCalls("e1") = <<[op |-> "update_status", parts |-> <<>>],
                             [op |-> "add_artifact", parts |-> <<>>],
                             [op |-> "complete", parts |-> <<>>]>>

(***************************************************************************)
(* C29                                                                      *)
(***************************************************************************)
\* C29: the single-part conversion of a runtime part returns the text part of
\* a non-empty text whatever else the part holds; without text and with a
\* file_data it returns the file-by-URI part of a non-empty uri (or fails on
\* an empty one) whatever inline_data holds; the inline part comes out only
\* when there is neither text nor file_data.
C29_TextThenUriThenInline ==
    converted.step = "done" =>
        \A i \in 1..Len(converted.genai) :
            LET p == converted.genai[i]
                r == converted.to_a2a_each[i] IN
            /\ Truthy(p.text) => r = Ok(TextPart(p.text))
            /\ (~Truthy(p.text) /\ p.file_data.set) =>
                  IF Truthy(p.file_data.file_uri)
                  THEN r = Ok(FileWithUri(p.file_data.file_uri, p.file_data.mime_type))
                  ELSE ~r.ok /\ r.err = "ValueError: File URI is missing"
            /\ (r.ok /\ r.val.file = "bytes") =>
                  (~Truthy(p.text) /\ ~p.file_data.set /\ p.inline_data.set)

\* A text with an invalid file_data came out as the text part, a file_data
\* with inline bytes as the file-by-URI part, and the list converted.
C29_Witness ==
    /\ converted.step = "done"
    /\ converted.genai =
          <<GenaiPart("a", FileData("", "application/pdf"), NoBlob, FALSE),
            GenaiPart(None, FileData("gs://doc", None), Blob(<<72>>, "image/png"), FALSE)>>
    /\ converted.to_a2a = Ok(<<TextPart("a"), FileWithUri("gs://doc", None)>>)

(***************************************************************************)
(* C30                                                                      *)
(***************************************************************************)
\* C30: converting a protocol part, the mime-type of a file-by-reference part
\* is copied as it is, absent included; that of an inline part is copied when
\* it is non-empty and is "application/octet-stream" when it is absent or
\* empty; a text part gets no file payload.
C30_MimeTypeOfFiles ==
    (converted.origin = "protocol" /\ converted.step \in {"genai", "failed", "done"}) =>
        \A i \in 1..Len(converted.a2a) :
            LET p == converted.a2a[i]
                r == converted.to_genai_each[i] IN
            /\ (p.kind = "file" /\ p.file = "uri") =>
                  /\ r.ok /\ r.val.file_data.set /\ ~r.val.inline_data.set
                  /\ r.val.file_data.mime_type = p.mimeType
            /\ (p.kind = "file" /\ p.file = "bytes") =>
                  /\ r.ok /\ r.val.inline_data.set /\ ~r.val.file_data.set
                  /\ r.val.inline_data.mime_type =
                        IF p.mimeType = None \/ p.mimeType = ""
                        THEN "application/octet-stream" ELSE p.mimeType
            /\ p.kind = "text" =>
                  r.ok /\ ~r.val.file_data.set /\ ~r.val.inline_data.set

\* An inline part without mime-type, one with an empty mime-type and a
\* file-by-reference part without mime-type were converted.
C30_Witness ==
    /\ converted.origin = "protocol" /\ converted.step = "genai"
    /\ converted.a2a = <<FileWithBytes(<<72>>, None), FileWithBytes(<<72>>, ""),
                         FileWithUri("gs://doc", None)>>
    /\ converted.genai[1].inline_data.mime_type = "application/octet-stream"
    /\ converted.genai[2].inline_data.mime_type = "application/octet-stream"
    /\ converted.genai[3].file_data.mime_type = None

====
